---------------------------- MODULE Spec2Model ----------------------------
(***************************************************************************)
(* Day-select demand response: the baseline (CBL) and reward computation   *)
(* of main.py over the in-memory METER_STORE, and the /dayDR endpoint of   *)
(* app.py over the Redis settings and load profile.                        *)
(*                                                                         *)
(* Conventions of the model                                                *)
(*  - a date is the number of days since 1970-01-01 (proleptic Gregorian), *)
(*    a time of day is minutes since 00:00, a datetime is                  *)
(*    [wall, tzinfo] with wall = minutes since 1970-01-01T00:00 as the     *)
(*    wall clock of its zone shows it and tzinfo in TzNames;               *)
(*  - a kW quantity is an exact rational <<numerator, denominator>> in     *)
(*    lowest terms with a positive denominator; the places where binary    *)
(*    floating point decides differently from exact arithmetic (round() on *)
(*    a decimal tie, the 0.1 h tolerance at its edge) are modelled by what *)
(*    IEEE-754 doubles do there;                                           *)
(*  - an Optional value is <<>> (None) or <<v>>.                           *)
(***************************************************************************)
EXTENDS Integers, Sequences, FiniteSets, TLC

VARIABLES
    METER_STORE,              \* main.py: customer_id -> list of MeterRecord
    OFF_PEAK_SPECIAL_DAYS,    \* main.py: configured off-peak dates
    request,                  \* the last request served by main.py
    response,                 \* its outcome: a response model or the exception raised
    reward_thread,            \* a compute_day_select_reward call between its two reads
    snapshots,                \* the values METER_STORE has had during that call
    redis_data,               \* app.py: the keys of the Redis store the endpoint reads
    dr_request,               \* the last POST /dayDR request
    dr_response               \* its outcome

vars == <<METER_STORE, OFF_PEAK_SPECIAL_DAYS, request, response,
          reward_thread, snapshots, redis_data, dr_request, dr_response>>

threadVars == <<reward_thread, snapshots>>
mainVars == <<METER_STORE, OFF_PEAK_SPECIAL_DAYS, request, response, threadVars>>
appVars == <<redis_data, dr_request, dr_response>>

-----------------------------------------------------------------------------
(* Exact rationals *)

Abs(n) == IF n < 0 THEN -n ELSE n

RECURSIVE GCD(_, _)
GCD(a, b) == IF b = 0 THEN a ELSE GCD(b, a % b)

Rat(n, d) ==
    LET s == IF d < 0 THEN -1 ELSE 1
        g == GCD(Abs(n), Abs(d))
    IN  <<(s * n) \div g, (s * d) \div g>>

RInt(k) == <<k, 1>>
RAdd(a, b) == Rat(a[1] * b[2] + b[1] * a[2], a[2] * b[2])
RSub(a, b) == Rat(a[1] * b[2] - b[1] * a[2], a[2] * b[2])
RMul(a, b) == Rat(a[1] * b[1], a[2] * b[2])
RDiv(a, b) == Rat(a[1] * b[2], a[2] * b[1])
RLt(a, b) == a[1] * b[2] < b[1] * a[2]
RLe(a, b) == a[1] * b[2] <= b[1] * a[2]
\* Python's max(a, b) and min(a, b): the first argument unless the second wins
RMax(a, b) == IF RLt(a, b) THEN b ELSE a
RMin(a, b) == IF RLt(b, a) THEN b ELSE a

RECURSIVE RSum(_)
RSum(s) == IF s = <<>> THEN RInt(0) ELSE RAdd(Head(s), RSum(Tail(s)))

-----------------------------------------------------------------------------
(* datetime: date, time, weekday, month, day; timezones *)

days_from_civil(y, m, d) ==
    LET yy  == IF m <= 2 THEN y - 1 ELSE y
        era == yy \div 400
        yoe == yy - era * 400
        mp  == IF m > 2 THEN m - 3 ELSE m + 9
        doy == (153 * mp + 2) \div 5 + d - 1
        doe == yoe * 365 + yoe \div 4 - yoe \div 100 + doy
    IN  era * 146097 + doe - 719468

civil_from_days(z0) ==
    LET z   == z0 + 719468
        era == z \div 146097
        doe == z - era * 146097
        yoe == (doe - doe \div 1460 + doe \div 36524 - doe \div 146096) \div 365
        doy == doe - (365 * yoe + yoe \div 4 - yoe \div 100)
        mp  == (5 * doy + 2) \div 153
        d   == doy - (153 * mp + 2) \div 5 + 1
        m   == IF mp < 10 THEN mp + 3 ELSE mp - 9
        y   == yoe + era * 400 + (IF m <= 2 THEN 1 ELSE 0)
    IN  [year |-> y, month |-> m, day |-> d]

\* date.weekday(): Monday is 0, Sunday is 6 (1970-01-01 was a Thursday)
weekday(d) == (d + 3) % 7

TzNames == {"naive", "UTC", "Asia/Taipei"}

\* minutes east of UTC; Asia/Taipei has been UTC+8 without DST since 1980
utcoffset(tz) == IF tz = "Asia/Taipei" THEN 480 ELSE 0

DT(y, m, d, hh, mm, tz) ==
    [wall |-> days_from_civil(y, m, d) * 1440 + hh * 60 + mm, tzinfo |-> tz]

date_of(dt) == dt.wall \div 1440
time_of(dt) == dt.wall % 1440
HM(hh, mm) == hh * 60 + mm

\* the instant of an aware datetime, in minutes since the epoch
instant(dt) == dt.wall - utcoffset(dt.tzinfo)

TZ == "Asia/Taipei"

to_taipei(dt) ==
    IF dt.tzinfo = "naive"
    THEN [wall |-> dt.wall, tzinfo |-> TZ]
    ELSE [wall |-> instant(dt) + utcoffset(TZ), tzinfo |-> TZ]

-----------------------------------------------------------------------------
(* main.py: helpers *)

is_weekend_sunday_only(d) == weekday(d) > 5

is_weekend(d) == weekday(d) >= 5

is_off_peak_day(off_peak, d) ==
    IF d \in off_peak THEN TRUE ELSE weekday(d) = 6

is_in_day_select_season_from_may(d) ==
    LET c == civil_from_days(d)
    IN  c.month > 5 \/ (c.month = 5 /\ c.day >= 1)

is_in_day_select_season(d) ==
    LET c == civil_from_days(d)
    IN  /\ (c.month > 5 \/ (c.month = 5 /\ c.day >= 1))
        /\ (c.month < 10 \/ (c.month = 10 /\ c.day <= 31))

\* datetime ordering: naive and aware datetimes cannot be ordered (TypeError)
Comparable(s) ==
    \A i, j \in 1..Len(s) :
        (s[i].timestamp.tzinfo = "naive") = (s[j].timestamp.tzinfo = "naive")

SortKey(r) ==
    IF r.timestamp.tzinfo = "naive" THEN r.timestamp.wall ELSE instant(r.timestamp)

RECURSIVE InsertSorted(_, _)
InsertSorted(sorted, r) ==
    \* stable: r goes after every element whose key is not greater
    IF sorted = <<>> THEN <<r>>
    ELSE IF SortKey(r) < SortKey(Head(sorted))
         THEN <<r>> \o sorted
         ELSE <<Head(sorted)>> \o InsertSorted(Tail(sorted), r)

RECURSIVE SortedByTimestamp(_)
SortedByTimestamp(s) ==
    IF s = <<>> THEN <<>>
    ELSE InsertSorted(SortedByTimestamp(SubSeq(s, 1, Len(s) - 1)), s[Len(s)])

\* [ok, records]: ok is FALSE when sorted() raises TypeError
get_customer_records(store, customer_id) ==
    IF customer_id \notin DOMAIN store
    THEN [ok |-> TRUE, records |-> <<>>]
    ELSE IF Comparable(store[customer_id])
         THEN [ok |-> TRUE, records |-> SortedByTimestamp(store[customer_id])]
         ELSE [ok |-> FALSE, records |-> <<>>]

RECURSIVE filter_records_by_time_window(_, _, _, _)
filter_records_by_time_window(records, target_date, start_t, end_t) ==
    IF records = <<>> THEN <<>>
    ELSE LET r  == Head(records)
             ts == to_taipei(r.timestamp)
             a  == IF date_of(ts) # target_date THEN <<>>
                   ELSE IF start_t <= time_of(ts) /\ time_of(ts) < end_t
                        THEN <<r>> ELSE <<>>
         IN  a \o filter_records_by_time_window(Tail(records), target_date, start_t, end_t)

RECURSIVE filter_records_cross_day(_, _, _, _)
filter_records_cross_day(records, target_date, start_t, end_t) ==
    \* the two ifs of the loop body are independent: each may append the record
    IF records = <<>> THEN <<>>
    ELSE LET r  == Head(records)
             ts == to_taipei(r.timestamp)
             a  == IF date_of(ts) = target_date /\ time_of(ts) >= start_t
                   THEN <<r>> ELSE <<>>
             b  == IF date_of(ts) = target_date + 1 /\ time_of(ts) < end_t
                   THEN <<r>> ELSE <<>>
         IN  a \o b \o filter_records_cross_day(Tail(records), target_date, start_t, end_t)

RECURSIVE SumKw(_)
SumKw(s) == IF s = <<>> THEN 0 ELSE Head(s).kw + SumKw(Tail(s))

\* Optional[float]: <<>> for None
average_kw(records) ==
    IF records = <<>> THEN <<>> ELSE <<Rat(SumKw(records), Len(records))>>

\* "x or 0.0"
OrZero(opt) == IF opt = <<>> THEN RInt(0) ELSE opt[1]

-----------------------------------------------------------------------------
(* main.py: compute_day_select_cbl *)

search_limit_one_more == 90 + 1

search_limit == 90

HTTPException(status_code, detail) ==
    [kind |-> "HTTPException", status_code |-> status_code, detail |-> detail]

\* the while loop of step 1: the qualifying days, most recent first
RECURSIVE SearchBaselineDays(_, _, _, _, _, _, _, _)
SearchBaselineDays(records, off_peak, baseline_days, current_day, searched, event_start_t, event_end_t, min_baseline_days) ==
    IF Len(baseline_days) < min_baseline_days /\ searched < search_limit
    THEN LET found ==
                 IF /\ ~is_weekend(current_day)
                    /\ ~is_off_peak_day(off_peak, current_day)
                    /\ is_in_day_select_season(current_day)
                 THEN filter_records_by_time_window(
                          records, current_day, event_start_t, event_end_t) # <<>>
                 ELSE FALSE
         IN  SearchBaselineDays(
                 records, off_peak,
                 IF found THEN Append(baseline_days, current_day) ELSE baseline_days,
                 current_day - 1, searched + 1,
                 event_start_t, event_end_t, min_baseline_days)
    ELSE baseline_days

\* the per-day averages that are not None, in the order of the days
RECURSIVE DayAverages(_, _, _, _, _)
DayAverages(records, days, start_t, end_t, cross_day) ==
    IF days = <<>> THEN <<>>
    ELSE LET recs == IF cross_day
                     THEN filter_records_cross_day(records, Head(days), start_t, end_t)
                     ELSE filter_records_by_time_window(records, Head(days), start_t, end_t)
         IN  average_kw(recs) \o DayAverages(records, Tail(days), start_t, end_t, cross_day)

DatesAsFound(days) == days

RECURSIVE SortedDates(_)
SortedDates(days) ==
    IF days = <<>> THEN <<>>
    ELSE LET m    == CHOOSE i \in 1..Len(days) : \A j \in 1..Len(days) : days[i] <= days[j]
             rest == [k \in 1..(Len(days) - 1) |-> IF k < m THEN days[k] ELSE days[k + 1]]
         IN  <<days[m]>> \o SortedDates(rest)

adjust_start == HM(22, 0)
adjust_end == HM(0, 0)

load_adjust_factor_signed(today_adjust_avg, hist_adjust_avg_kw) ==
    RSub(today_adjust_avg, hist_adjust_avg_kw)

load_adjust_factor(today_adjust_avg, hist_adjust_avg_kw) ==
    RMax(RSub(today_adjust_avg, hist_adjust_avg_kw), RInt(0))

cbl2_kw_of(contract_capacity_kw, cbl1_plus_af_kw) ==
    IF contract_capacity_kw # <<>> THEN RInt(contract_capacity_kw[1]) ELSE cbl1_plus_af_kw

final_cbl_larger(cbl1_plus_af_kw, cbl2_kw) ==
    IF RLt(cbl1_plus_af_kw, cbl2_kw) THEN cbl2_kw ELSE cbl1_plus_af_kw

final_cbl(cbl1_plus_af_kw, cbl2_kw) ==
    IF RLt(cbl1_plus_af_kw, cbl2_kw) THEN cbl1_plus_af_kw ELSE cbl2_kw

compute_day_select_cbl(store, off_peak, customer_id, event_start_in, event_end_in, contract_capacity_kw, min_baseline_days) ==
    LET event_start == to_taipei(event_start_in)
        event_end   == to_taipei(event_end_in)
        event_date  == date_of(event_start)
        got         == get_customer_records(store, customer_id)
        records     == got.records
        event_start_t == time_of(event_start)
        event_end_t   == time_of(event_end)
        baseline_days ==
            SearchBaselineDays(records, off_peak, <<>>, event_date - 1, 0,
                               event_start_t, event_end_t, min_baseline_days)
        event_window_avgs ==
            DayAverages(records, baseline_days, event_start_t, event_end_t, FALSE)
        baseline_event_avg_kw ==
            RDiv(RSum(event_window_avgs), RInt(Len(event_window_avgs)))
        hist_adjust == DayAverages(records, baseline_days, adjust_start, adjust_end, TRUE)
        hist_adjust_avg_kw ==
            IF hist_adjust # <<>>
            THEN RDiv(RSum(hist_adjust), RInt(Len(hist_adjust)))
            ELSE RInt(0)
        today_recs == filter_records_cross_day(records, event_date, adjust_start, adjust_end)
        today_adjust_avg == OrZero(average_kw(today_recs))
        cbl1_kw == baseline_event_avg_kw
        af_kw == load_adjust_factor(today_adjust_avg, hist_adjust_avg_kw)
        cbl1_plus_af_kw == RAdd(cbl1_kw, af_kw)
        cbl2_kw == cbl2_kw_of(contract_capacity_kw, cbl1_plus_af_kw)
        cbl_kw == final_cbl(cbl1_plus_af_kw, cbl2_kw)
    IN  IF instant(event_end) <= instant(event_start)
        THEN HTTPException(400, [error |-> "EventEndNotAfterStart"])
        ELSE IF ~is_in_day_select_season(event_date)
        THEN HTTPException(400, [error |-> "OutOfSeason"])
        ELSE IF ~got.ok
        THEN [kind |-> "TypeError"]
        ELSE IF records = <<>>
        THEN HTTPException(404, [error |-> "NoMeterData"])
        ELSE IF Len(baseline_days) < min_baseline_days
        THEN HTTPException(400, [error |-> "InsufficientBaseline",
                                 min_baseline_days |-> min_baseline_days,
                                 found |-> Len(baseline_days)])
        ELSE IF event_window_avgs = <<>>
        THEN [kind |-> "ZeroDivisionError"]
        ELSE [kind |-> "DaySelectCBLResponse",
              customer_id |-> customer_id,
              event_start |-> event_start,
              event_end |-> event_end,
              cbl_kw |-> cbl_kw,
              baseline_source_days |-> SortedDates(baseline_days),
              method |-> "day-select-cbl-v1",
              detail |-> [cbl1_kw |-> cbl1_kw,
                          af_kw |-> af_kw,
                          cbl1_plus_af_kw |-> cbl1_plus_af_kw,
                          cbl2_kw |-> cbl2_kw,
                          cbl_kw |-> cbl_kw,
                          hist_adjust_avg_kw |-> hist_adjust_avg_kw,
                          today_adjust_avg_kw |-> today_adjust_avg]]

-----------------------------------------------------------------------------
(* main.py: compute_day_select_reward *)

\* round(x, 1) of a double x >= 0 that is the quotient of two exactly
\* representable numbers, in tenths. Off a decimal tie the nearest tenth; on
\* a tie k/20 (k odd) the double nearest to k/20 lies above or below it, or is
\* k/20 itself (0.25, 0.75: round-half-even), which decides. From 1.25 on
\* either neighbour is at least 1.2, where the caller caps the result.
TieRoundsUp == {1, 9, 11, 13, 15, 21}

round1_tenths_half_away(x) ==
    LET p == 10 * x[1]
        q == x[2]
        f == p \div q
    IN  IF 2 * (p - f * q) < q THEN f ELSE f + 1

round1_tenths(x) ==
    LET p == 10 * x[1]
        q == x[2]
        f == p \div q
        twice_rem == 2 * (p - f * q)
    IN  IF twice_rem < q THEN f
        ELSE IF twice_rem > q THEN f + 1
        ELSE IF (2 * f + 1) \in TieRoundsUp THEN f + 1
        ELSE f

\* abs(event_duration_hours - hours) < 0.1 in doubles, the duration a whole
\* number of minutes: exact off the edge; at the edge 4.1 - 4, 6 - 5.9 and
\* 6.1 - 6 come out below the double 0.1, while 2 - 1.9, 2.1 - 2 and 4 - 3.9
\* come out above it
EdgeBelowTenth == {<<246, 4>>, <<354, 6>>, <<366, 6>>}

reduction_ratio_of_exclusive_lower(x_ratio_rounded) ==
    IF RLe(x_ratio_rounded, Rat(6, 10)) THEN Rat(0, 10)
    ELSE IF RLe(x_ratio_rounded, Rat(8, 10)) THEN Rat(8, 10)
    ELSE IF RLt(x_ratio_rounded, Rat(95, 100)) THEN Rat(10, 10)
    ELSE Rat(12, 10)

reduction_ratio_of(x_ratio_rounded) ==
    IF RLt(x_ratio_rounded, Rat(6, 10)) THEN Rat(0, 10)
    ELSE IF RLt(x_ratio_rounded, Rat(8, 10)) THEN Rat(8, 10)
    ELSE IF RLt(x_ratio_rounded, Rat(95, 100)) THEN Rat(10, 10)
    ELSE Rat(12, 10)

abs_diff_below_tenth(duration_minutes, hours) ==
    LET diff == Abs(duration_minutes - 60 * hours)
    IN  IF diff # 6 THEN diff < 6 ELSE <<duration_minutes, hours>> \in EdgeBelowTenth

committed_capacity_below_fifty(committed_capacity_kw) == committed_capacity_kw <= 50

\* "if committed_capacity_kw <= 0"
committed_capacity_not_positive(committed_capacity_kw) == committed_capacity_kw <= 0

\* compute_day_select_reward from the baseline call on: cbl_resp is the outcome
\* of compute_day_select_cbl, sortable whether sorted() of the second
\* get_customer_records succeeds, actual_avg_kw the event window's average
reward_from_baseline(cbl_resp, sortable, actual_avg_kw, customer_id, event_start, event_end, committed_capacity_kw) ==
    LET cbl_kw == cbl_resp.cbl_kw
        actual_reduction_kw == RMax(RSub(cbl_kw, actual_avg_kw), RInt(0))
        x_ratio == RDiv(actual_reduction_kw, RInt(committed_capacity_kw))
        rounded == round1_tenths(x_ratio)
        x_ratio_rounded == IF rounded > 12 THEN Rat(12, 10) ELSE Rat(rounded, 10)
        reduction_ratio == reduction_ratio_of(x_ratio_rounded)
        duration_minutes == instant(event_end) - instant(event_start)
        event_duration_hours == Rat(duration_minutes, 60)
        tariff_rate ==
            IF abs_diff_below_tenth(duration_minutes, 2) THEN <<Rat(247, 100)>>
            ELSE IF abs_diff_below_tenth(duration_minutes, 4) THEN <<Rat(184, 100)>>
            ELSE IF abs_diff_below_tenth(duration_minutes, 6) THEN <<Rat(169, 100)>>
            ELSE <<>>
        reward_ntd ==
            RMul(RMul(RMul(RMul(RInt(committed_capacity_kw), x_ratio_rounded),
                           event_duration_hours), tariff_rate[1]), reduction_ratio)
        computed ==
            [actual_avg_kw |-> actual_avg_kw,
             actual_reduction_kw |-> actual_reduction_kw,
             execution_rate |-> x_ratio_rounded,
             reduction_ratio |-> reduction_ratio,
             tariff_rate |-> tariff_rate[1],
             event_duration_hours |-> event_duration_hours,
             reward_ntd |-> reward_ntd]
    IN  IF cbl_resp.kind # "DaySelectCBLResponse"
        THEN cbl_resp
        ELSE IF ~sortable
        THEN [kind |-> "TypeError"]
        ELSE IF committed_capacity_not_positive(committed_capacity_kw)
        THEN HTTPException(400, [error |-> "CommittedCapacityNotPositive"])
        ELSE IF tariff_rate = <<>>
        THEN HTTPException(400, [error |-> "UnsupportedDuration",
                                 event_duration_hours |-> event_duration_hours])
        ELSE [kind |-> "DaySelectRewardResponse",
              customer_id |-> customer_id,
              event_start |-> event_start,
              event_end |-> event_end,
              committed_capacity_kw |-> committed_capacity_kw,
              cbl_kw |-> cbl_kw,
              actual_avg_kw |-> computed.actual_avg_kw,
              actual_reduction_kw |-> computed.actual_reduction_kw,
              execution_rate |-> computed.execution_rate,
              reduction_ratio |-> computed.reduction_ratio,
              tariff_rate |-> computed.tariff_rate,
              event_duration_hours |-> computed.event_duration_hours,
              reward_ntd |-> computed.reward_ntd,
              baseline_source_days |-> cbl_resp.baseline_source_days,
              method |-> "day-select-reward-v1",
              detail |-> cbl_resp.detail @@
                         [actual_avg_kw |-> computed.actual_avg_kw,
                          actual_reduction_kw |-> computed.actual_reduction_kw,
                          execution_rate_ratio |-> computed.execution_rate,
                          reduction_ratio |-> computed.reduction_ratio,
                          tariff_rate |-> computed.tariff_rate,
                          event_duration_hours |-> computed.event_duration_hours,
                          reward_ntd |-> computed.reward_ntd]]

\* the second read of the store and the samples of the event's own window:
\* [ok, records], ok FALSE when sorted() raises TypeError
event_window_records(store, customer_id, event_start, event_end) ==
    LET event_date == date_of(event_start)
        got        == get_customer_records(store, customer_id)
    IN  [ok |-> got.ok,
         records |->
            IF date_of(event_end) # event_date
            THEN filter_records_cross_day(got.records, event_date,
                                          time_of(event_start), time_of(event_end))
            ELSE filter_records_by_time_window(got.records, event_date,
                                               time_of(event_start), time_of(event_end))]

compute_day_select_reward(store, off_peak, customer_id, event_start_in, event_end_in, contract_capacity_kw, committed_capacity_kw, min_baseline_days) ==
    LET event_start == to_taipei(event_start_in)
        event_end   == to_taipei(event_end_in)
        actual      == event_window_records(store, customer_id, event_start, event_end)
    IN  reward_from_baseline(
            compute_day_select_cbl(store, off_peak, customer_id, event_start_in,
                                   event_end_in, contract_capacity_kw, min_baseline_days),
            actual.ok, OrZero(average_kw(actual.records)),
            customer_id, event_start, event_end, committed_capacity_kw)

-----------------------------------------------------------------------------
(* Inputs of the model: meter records, events, capacities *)

MaxRecords == 2

MeterRecord(customer_id, timestamp, kw) ==
    [customer_id |-> customer_id, timestamp |-> timestamp, kw |-> kw]

\* Samples around the event dates 2024-10-30 (Wednesday) and 2024-05-02
\* (Thursday). Naive timestamps are Taipei wall-clock times.
Records ==
    { MeterRecord("c1", DT(2024, 10, 29, 16, 0, "naive"), 85),  \* Tuesday, in the window
      MeterRecord("c1", DT(2024, 10, 28, 16, 0, "naive"), 100), \* Monday, in the window
      MeterRecord("c1", DT(2024, 10, 27, 16, 0, "naive"), 100), \* Sunday
      MeterRecord("c1", DT(2024, 10, 26, 16, 0, "naive"), 100), \* Saturday
      MeterRecord("c1", DT(2024, 8, 1, 16, 0, "naive"), 60),    \* 90 days before Oct 30
      MeterRecord("c1", DT(2024, 7, 31, 16, 0, "naive"), 60),   \* 91 days before Oct 30
      MeterRecord("c1", DT(2024, 10, 29, 20, 0, "naive"), 100), \* at the end of the window
      MeterRecord("c1", DT(2024, 10, 29, 22, 0, "naive"), 15),  \* adjustment window, history
      MeterRecord("c1", DT(2024, 10, 30, 22, 0, "naive"), 85),  \* adjustment window, event day
      MeterRecord("c1", DT(2024, 10, 28, 17, 0, "UTC"), 100),   \* Oct 29 01:00 in Taipei
      MeterRecord("c1", DT(2024, 5, 1, 16, 0, "naive"), 60),    \* first day of the season
      MeterRecord("c1", DT(2024, 4, 30, 16, 0, "naive"), 60),   \* last day before the season
      MeterRecord("c2", DT(2024, 10, 29, 16, 0, "naive"), 40) } \* another customer

Customers == {"c1", "c2"}

\* <<event_start, event_end>>
EvWed == <<DT(2024, 10, 30, 16, 0, "naive"), DT(2024, 10, 30, 20, 0, "naive")>>
EvWedUTC == <<DT(2024, 10, 30, 8, 0, "UTC"), DT(2024, 10, 30, 12, 0, "UTC")>>
EvMay2 == <<DT(2024, 5, 2, 16, 0, "naive"), DT(2024, 5, 2, 20, 0, "naive")>>
EvDec15 == <<DT(2024, 12, 15, 16, 0, "naive"), DT(2024, 12, 15, 20, 0, "naive")>>
EvEndBeforeStart == <<DT(2024, 10, 30, 16, 0, "naive"), DT(2024, 10, 29, 20, 0, "naive")>>
EvOverMidnight == <<DT(2024, 10, 30, 22, 0, "naive"), DT(2024, 10, 31, 0, 0, "naive")>>

\* <<customer_id, event, contract_capacity_kw, min_baseline_days>>
CBLCalls ==
    ({"c1"} \X {EvWed, EvDec15} \X {<<>>} \X {1, 2})
    \cup ({"c1"} \X {EvWedUTC, EvMay2, EvEndBeforeStart, EvOverMidnight} \X {<<>>} \X {1})
    \cup ({"c1"} \X {EvWed} \X {<<50>>, <<200>>} \X {1})
    \cup {<<"c1", EvWed, <<>>, 0>>, <<"c2", EvWed, <<>>, 1>>}

OffPeakCalendars == {{}, {days_from_civil(2024, 10, 28)}}

StoreSize(store) ==
    LET RECURSIVE Total(_)
        Total(cs) == IF cs = {} THEN 0
                     ELSE LET c == CHOOSE c \in cs : TRUE
                          IN  Len(store[c]) + Total(cs \ {c})
    IN  Total(DOMAIN store)

NoRequest == [op |-> "none"]
NoResponse == [kind |-> "none"]

-----------------------------------------------------------------------------
(* Actions of main.py *)

\* POST /meter-data/batch
RECURSIVE AppendAll(_, _)
AppendAll(store, recs) ==
    IF recs = <<>> THEN store
    ELSE LET r   == Head(recs)
             cid == r.customer_id
             s1  == IF cid \notin DOMAIN store THEN store @@ (cid :> <<>>) ELSE store
             s2  == [s1 EXCEPT ![cid] = Append(@, r)]
         IN  AppendAll(s2, Tail(recs))

ingest_meter_data(records) ==
    /\ response = NoResponse
    /\ StoreSize(METER_STORE) + Len(records) <= MaxRecords
    /\ METER_STORE' = AppendAll(METER_STORE, records)
    /\ request' = [op |-> "ingest_meter_data", records |-> records]
    /\ response' = [kind |-> "ok", status |-> "ok", inserted |-> Len(records)]
    /\ UNCHANGED <<OFF_PEAK_SPECIAL_DAYS, appVars, threadVars>>

\* compute_day_select_cbl called on the current store
call_compute_day_select_cbl(customer_id, ev, contract_capacity_kw, min_baseline_days) ==
    /\ response = NoResponse
    /\ request' = [op |-> "compute_day_select_cbl",
                   customer_id |-> customer_id,
                   event_start |-> ev[1], event_end |-> ev[2],
                   contract_capacity_kw |-> contract_capacity_kw,
                   min_baseline_days |-> min_baseline_days]
    /\ response' = compute_day_select_cbl(METER_STORE, OFF_PEAK_SPECIAL_DAYS, customer_id,
                                          ev[1], ev[2], contract_capacity_kw,
                                          min_baseline_days)
    /\ UNCHANGED <<METER_STORE, OFF_PEAK_SPECIAL_DAYS, appVars, threadVars>>

Batches == {<<>>} \cup {<<r>> : r \in Records}

Idle == [pc |-> "idle"]

InitMain ==
    /\ METER_STORE = <<>>
    /\ OFF_PEAK_SPECIAL_DAYS \in OffPeakCalendars
    /\ request = NoRequest
    /\ response = NoResponse
    /\ reward_thread = Idle
    /\ snapshots = {}

InitApp ==
    /\ redis_data = <<>>
    /\ dr_request = NoRequest
    /\ dr_response = NoResponse

Init == InitMain /\ InitApp

Ingest == \E b \in Batches : ingest_meter_data(b)

CallCBL ==
    \E c \in CBLCalls : call_compute_day_select_cbl(c[1], c[2], c[3], c[4])

\* the response (or the error) goes back to the caller; the server is idle again
Reply ==
    /\ response # NoResponse
    /\ request' = NoRequest
    /\ response' = NoResponse
    /\ UNCHANGED <<METER_STORE, OFF_PEAK_SPECIAL_DAYS, appVars, threadVars>>

Next == Ingest \/ CallCBL \/ Reply

Spec == Init /\ [][Next]_vars

-----------------------------------------------------------------------------
(* compute_day_select_reward called on the store *)

\* an event that starts on 2024-10-30 at 16:00 and lasts the given minutes
EvDuration(minutes) ==
    <<DT(2024, 10, 30, 16, 0, "naive"),
      [wall |-> DT(2024, 10, 30, 16, 0, "naive").wall + minutes, tzinfo |-> "naive"]>>

\* durations around 2, 4 and 6 hours, 6 minutes being 0.1 h
DurationsMinutes == {114, 115, 120, 125, 126, 180, 234, 240, 246, 354, 360, 366}

CommittedCapacities == {-10, 0, 50, 85, 90, 140, 170}

RewardRecords ==
    { MeterRecord("c1", DT(2024, 10, 29, 16, 0, "naive"), 100), \* Tuesday, in the window
      MeterRecord("c1", DT(2024, 10, 28, 16, 0, "naive"), 70),  \* Monday, in the window
      MeterRecord("c1", DT(2024, 10, 30, 16, 0, "naive"), 15),  \* event day, in the window
      MeterRecord("c1", DT(2024, 10, 30, 17, 0, "naive"), 120), \* event day, above the baseline
      MeterRecord("c1", DT(2024, 10, 30, 22, 0, "naive"), 85),  \* event day, adjustment window
      MeterRecord("c1", DT(2024, 10, 29, 22, 30, "naive"), 60), \* Tuesday, late evening
      MeterRecord("c1", DT(2024, 10, 28, 17, 0, "UTC"), 100) }  \* zone-aware among naive ones

\* <<customer_id, event, contract_capacity_kw, committed_capacity_kw, min_baseline_days>>
RewardCalls ==
    ({"c1"} \X {EvDuration(m) : m \in DurationsMinutes} \X {<<>>} \X {100} \X {1})
    \cup ({"c1"} \X {EvWed} \X {<<>>} \X CommittedCapacities \X {1})
    \cup ({"c1"} \X {EvDec15, EvEndBeforeStart, EvDuration(180)} \X {<<>>} \X {0} \X {1})
    \cup { <<"c1", EvDec15, <<>>, 100, 1>>,
           <<"c2", EvDuration(180), <<>>, 0, 1>>,
           <<"c1", EvDuration(180), <<>>, 0, 2>>,
           <<"c1", EvWed, <<>>, 100, 2>>,
           <<"c1", EvWed, <<50>>, 100, 1>>,
           <<"c1", EvOverMidnight, <<>>, 100, 1>>,
           <<"c1", EvWed, <<>>, 100, 0>> }

call_compute_day_select_reward(customer_id, ev, contract_capacity_kw, committed_capacity_kw, min_baseline_days) ==
    /\ response = NoResponse
    /\ request' = [op |-> "compute_day_select_reward",
                   customer_id |-> customer_id,
                   event_start |-> ev[1], event_end |-> ev[2],
                   contract_capacity_kw |-> contract_capacity_kw,
                   committed_capacity_kw |-> committed_capacity_kw,
                   min_baseline_days |-> min_baseline_days]
    /\ response' = compute_day_select_reward(METER_STORE, OFF_PEAK_SPECIAL_DAYS, customer_id,
                                             ev[1], ev[2], contract_capacity_kw,
                                             committed_capacity_kw, min_baseline_days)
    /\ UNCHANGED <<METER_STORE, OFF_PEAK_SPECIAL_DAYS, appVars, threadVars>>

RewardBatches == {<<>>} \cup {<<r>> : r \in RewardRecords}

IngestReward == \E b \in RewardBatches : ingest_meter_data(b)

CallReward ==
    \E c \in RewardCalls : call_compute_day_select_reward(c[1], c[2], c[3], c[4], c[5])

NextReward == IngestReward \/ CallReward \/ Reply

SpecReward == Init /\ [][NextReward]_vars

-----------------------------------------------------------------------------
(* compute_day_select_reward in a worker thread while another request's     *)
(* ingest_meter_data appends: the endpoints are plain functions, which the  *)
(* framework runs in a thread pool. The call reads METER_STORE twice: inside *)
(* compute_day_select_cbl and again for the event window's samples.         *)

EvEvening == <<DT(2024, 10, 30, 18, 30, "naive"), DT(2024, 10, 30, 22, 30, "naive")>>

ConcurrentRecords ==
    { MeterRecord("c1", DT(2024, 10, 29, 19, 0, "naive"), 100), \* Tuesday, in both windows
      MeterRecord("c1", DT(2024, 10, 28, 19, 0, "naive"), 70),  \* Monday, in both windows
      MeterRecord("c1", DT(2024, 10, 30, 19, 0, "naive"), 15),  \* event day, in both windows
      MeterRecord("c1", DT(2024, 10, 30, 22, 0, "naive"), 85) } \* event day, from 22:00 on

\* <<customer_id, event, contract_capacity_kw, committed_capacity_kw, min_baseline_days>>
ConcurrentCalls ==
    {"c1"} \X {EvWed, EvEvening} \X {<<>>} \X {100} \X {1, 2}

\* main.py 284-291: the baseline is computed from the store as it is now
reward_call_baseline(customer_id, ev, contract_capacity_kw, committed_capacity_kw, min_baseline_days) ==
    /\ reward_thread = Idle
    /\ response = NoResponse
    /\ request' = [op |-> "compute_day_select_reward",
                   customer_id |-> customer_id,
                   event_start |-> ev[1], event_end |-> ev[2],
                   contract_capacity_kw |-> contract_capacity_kw,
                   committed_capacity_kw |-> committed_capacity_kw,
                   min_baseline_days |-> min_baseline_days]
    /\ \E cbl_resp \in {compute_day_select_cbl(METER_STORE, OFF_PEAK_SPECIAL_DAYS,
                                                 customer_id, ev[1], ev[2],
                                                 contract_capacity_kw, min_baseline_days)} :
           IF cbl_resp.kind # "DaySelectCBLResponse"
           THEN /\ response' = cbl_resp
                /\ reward_thread' = Idle
           ELSE /\ response' = NoResponse
                /\ reward_thread' = [pc |-> "baseline_done", cbl_resp |-> cbl_resp]
    /\ snapshots' = {METER_STORE}
    /\ UNCHANGED <<METER_STORE, OFF_PEAK_SPECIAL_DAYS, appVars>>

\* main.py 294-385: the store is read again for the event window
reward_call_actual ==
    /\ reward_thread # Idle
    /\ \E actual \in {event_window_records(METER_STORE, request.customer_id,
                                              to_taipei(request.event_start),
                                              to_taipei(request.event_end))} :
           response' = reward_from_baseline(
                           reward_thread.cbl_resp, actual.ok,
                           OrZero(average_kw(actual.records)),
                           request.customer_id, to_taipei(request.event_start),
                           to_taipei(request.event_end), request.committed_capacity_kw)
    /\ reward_thread' = Idle
    /\ UNCHANGED <<METER_STORE, OFF_PEAK_SPECIAL_DAYS, request, snapshots, appVars>>

\* main.py 405-410: one pass of the loop of ingest_meter_data in another thread
ingest_append(r) ==
    /\ StoreSize(METER_STORE) < MaxRecords
    /\ METER_STORE' = AppendAll(METER_STORE, <<r>>)
    /\ snapshots' = IF reward_thread = Idle THEN snapshots
                    ELSE snapshots \cup {METER_STORE'}
    /\ UNCHANGED <<OFF_PEAK_SPECIAL_DAYS, request, response, reward_thread, appVars>>

RewardBaseline ==
    \E c \in ConcurrentCalls : reward_call_baseline(c[1], c[2], c[3], c[4], c[5])

IngestAppend == \E r \in ConcurrentRecords : ingest_append(r)

NextConcurrent == RewardBaseline \/ reward_call_actual \/ IngestAppend \/ Reply

SpecConcurrent == Init /\ [][NextConcurrent]_vars

-----------------------------------------------------------------------------
(* app.py: POST /dayDR *)

\* A Redis value is modelled by what json.loads makes of it:
\* [json |-> "invalid"] for a string that is no JSON, [json |-> "object", ...]
\* for an object with its keys, [json |-> "list", items |-> <<...>>] for a list.
\* A load-profile entry is [timestamp |-> Optional datetime, kw |-> Optional
\* number], <<>> standing for a missing or unparsable field.

ALLOWED_WINDOWS ==
    { <<HM(18, 0), HM(20, 0)>>,
      <<HM(16, 0), HM(20, 0)>>,
      <<HM(16, 0), HM(22, 0)>> }

\* datetime.astimezone(tz) of an aware datetime
astimezone(dt, tz) == [wall |-> instant(dt) + utcoffset(tz), tzinfo |-> tz]

\* the keys ZoneInfo(key) finds among those the requests use; for any other
\* key it raises ZoneInfoNotFoundError
ZoneInfoKeys == {"UTC", "Asia/Taipei"}

\* the TZ environment variable is not set: os.getenv("TZ", "UTC") is "UTC"
resolve_timezone(request_tz) ==
    IF request_tz # <<>> THEN request_tz[1] ELSE "UTC"

DayDRResponse(accepted, reason, cbl) ==
    [kind |-> "DayDRResponse", accepted |-> accepted, reason |-> reason, cbl |-> cbl]

read_contract_value(redis_client) ==
    IF "setting_json" \notin DOMAIN redis_client
    THEN <<>>
    ELSE LET payload == redis_client["setting_json"]
         IN  IF payload.json = "invalid" THEN <<>> ELSE payload.contract_value

is_valid_window(start, end) ==
    IF weekday(date_of(start)) > 4
    THEN FALSE
    ELSE <<time_of(start), time_of(end)>> \in ALLOWED_WINDOWS

is_in_active_season(start) ==
    LET c == civil_from_days(date_of(start))
    IN  IF c.month < 5 \/ c.month > 10 THEN FALSE
        ELSE IF c.month = 5 /\ c.day < 1 THEN FALSE
        ELSE IF c.month = 10 /\ c.day > 31 THEN FALSE
        ELSE TRUE

\* [ok, data] or the HTTPException raised
read_load_profile(redis_client) ==
    IF "load_profile:15m" \notin DOMAIN redis_client
    THEN HTTPException(503, [error |-> "Load profile unavailable"])
    ELSE LET data == redis_client["load_profile:15m"]
         IN  IF data.json = "invalid"
             THEN HTTPException(500, [error |-> "Invalid load profile format"])
             ELSE IF data.json # "list"
             THEN HTTPException(500, [error |-> "Load profile must be a list"])
             ELSE [kind |-> "ok", data |-> data.items]

\* the generator raises at the first malformed entry it reaches
malformed(entry) == entry.timestamp = <<>> \/ entry.kw = <<>>

earliest_date_one_more(call_date) == call_date - 21

\* "earliest_date = call_date - timedelta(days=20)"
earliest_date_of(call_date) == call_date - 20

\* the first loop of _calculate_cbl: the (date, kw) pairs it keeps, in order
RECURSIVE daily_minima(_, _, _, _, _)
daily_minima(entries, window_start, window_end, call_date, tz) ==
    IF entries = <<>> THEN <<>>
    ELSE LET entry    == Head(entries)
             local_dt == astimezone(entry.timestamp[1], tz)
             kept     ==
                 IF date_of(local_dt) >= call_date
                    \/ date_of(local_dt) < earliest_date_of(call_date)
                 THEN <<>>
                 ELSE IF time_of(local_dt) < window_start \/ time_of(local_dt) > window_end
                 THEN <<>>
                 ELSE << <<date_of(local_dt), entry.kw[1]>> >>
         IN  kept \o daily_minima(Tail(entries), window_start, window_end, call_date, tz)

\* the second loop: minima_by_date[day] = min(minima_by_date.get(day, kw), kw)
RECURSIVE minima_by_date(_, _)
minima_by_date(pairs, acc) ==
    IF pairs = <<>> THEN acc
    ELSE LET day == Head(pairs)[1]
             kw  == Head(pairs)[2]
             old == IF day \in DOMAIN acc THEN acc[day] ELSE kw
             new == IF kw < old THEN kw ELSE old
         IN  minima_by_date(Tail(pairs),
                            [d \in DOMAIN acc \cup {day} |-> IF d = day THEN new ELSE acc[d]])

RECURSIVE SumValues(_, _)
SumValues(f, D) ==
    IF D = {} THEN 0
    ELSE LET d == CHOOSE d \in D : TRUE
         IN  f[d] + SumValues(f, D \ {d})

\* the cbl as [kind |-> "ok", value] or the HTTPException raised
calculate_cbl(load_profile, start, end, tz) ==
    LET window_start == time_of(start)
        window_end   == time_of(end)
        call_date    == date_of(start)
        minima       == minima_by_date(
                            daily_minima(load_profile, window_start, window_end,
                                         call_date, tz),
                            <<>>)
    IN  IF \E i \in 1..Len(load_profile) : malformed(load_profile[i])
        THEN HTTPException(500, [error |-> "Malformed load profile entry"])
        ELSE IF DOMAIN minima = {}
        THEN HTTPException(422, [error |-> "Insufficient load profile for CBL calculation"])
        ELSE [kind |-> "ok",
              value |-> Rat(SumValues(minima, DOMAIN minima), Cardinality(DOMAIN minima))]

\* the validators of DayDRRequest and TimeSpan
request_is_valid(req) ==
    /\ req.capacityDR > 0
    /\ instant(req.timespanDR.end) > instant(req.timespanDR.start)

handle_day_dr_response(req, redis_client) ==
    LET target_tz      == resolve_timezone(req.timezone)
        local_start    == astimezone(req.timespanDR.start, target_tz)
        local_end      == astimezone(req.timespanDR.end, target_tz)
        contract_value == read_contract_value(redis_client)
        load_profile   == read_load_profile(redis_client)
        cbl_value      == calculate_cbl(load_profile.data, local_start, local_end, target_tz)
    IN  IF ~request_is_valid(req)
        THEN [kind |-> "RequestValidationError", status_code |-> 422]
        ELSE IF req.measure # "dayDR"
        THEN DayDRResponse(FALSE, <<"Unsupported measure">>, <<>>)
        ELSE IF target_tz \notin ZoneInfoKeys
        THEN [kind |-> "ZoneInfoNotFoundError"]
        ELSE IF contract_value = <<>> \/ contract_value[1] <= 100
        THEN DayDRResponse(FALSE, <<"Contract value below threshold">>, <<>>)
        ELSE IF ~is_valid_window(local_start, local_end)
        THEN DayDRResponse(FALSE, <<"Timespan not in allowed DR windows">>, <<>>)
        ELSE IF ~is_in_active_season(local_start)
        THEN DayDRResponse(FALSE, <<"Request outside active DR season">>, <<>>)
        ELSE IF req.capacityDR <= 20
        THEN DayDRResponse(FALSE, <<"capacityDR must exceed 20 kW">>, <<>>)
        ELSE IF load_profile.kind # "ok"
        THEN load_profile
        ELSE IF cbl_value.kind # "ok"
        THEN cbl_value
        ELSE DayDRResponse(TRUE, <<>>, <<cbl_value.value>>)

handle_day_dr(req) ==
    /\ dr_response = NoResponse
    /\ dr_request' = [op |-> "handle_day_dr"] @@ req
    /\ dr_response' = handle_day_dr_response(req, redis_data)
    /\ UNCHANGED <<redis_data, mainVars>>

\* the response goes back to the client
ReplyDayDR ==
    /\ dr_response # NoResponse
    /\ dr_request' = NoRequest
    /\ dr_response' = NoResponse
    /\ UNCHANGED <<redis_data, mainVars>>

(* Inputs of /dayDR *)

MaxEntries == 2

LoadEntry(timestamp, kw) == [timestamp |-> <<timestamp>>, kw |-> <<kw>>]

\* entries around the call date 2024-06-05 (a Wednesday)
EntryPool ==
    { LoadEntry(DT(2024, 6, 4, 16, 0, "UTC"), 30),          \* at the start of 16:00-20:00
      LoadEntry(DT(2024, 6, 4, 18, 0, "UTC"), 20),
      LoadEntry(DT(2024, 6, 4, 20, 0, "UTC"), 10),          \* at the end of the window
      LoadEntry(DT(2024, 6, 4, 22, 15, "UTC"), 5),          \* after every window
      LoadEntry(DT(2024, 6, 5, 17, 0, "UTC"), 1),           \* on the call date
      LoadEntry(DT(2024, 5, 16, 17, 0, "UTC"), 50),         \* 20 days before
      LoadEntry(DT(2024, 5, 15, 17, 0, "UTC"), 2),          \* 21 days before
      LoadEntry(DT(2024, 6, 4, 1, 0, "Asia/Taipei"), 35),   \* +08:00: June 3 17:00 UTC
      LoadEntry(DT(2024, 6, 1, 19, 0, "UTC"), 8),           \* a Saturday
      [timestamp |-> <<>>, kw |-> <<7>>] }                  \* no timestamp key

RECURSIVE SeqsUpTo(_, _)
SeqsUpTo(S, n) ==
    IF n = 0 THEN {<<>>}
    ELSE LET shorter == SeqsUpTo(S, n - 1)
         IN  shorter \cup {Append(q, e) : q \in shorter, e \in S}

\* build_load_profile(call_date) of the test: for days_back = 1..20 an entry
\* of 10 + days_back kW at 16:00 and one of 15 + days_back kW at 18:00 UTC
build_load_profile(call_date) ==
    [i \in 1..40 |->
        LET days_back == (i + 1) \div 2
            kw_base   == 10 + days_back
        IN  IF i % 2 = 1
            THEN LoadEntry([wall |-> (call_date - days_back) * 1440 + HM(16, 0),
                            tzinfo |-> "UTC"], kw_base)
            ELSE LoadEntry([wall |-> (call_date - days_back) * 1440 + HM(18, 0),
                            tzinfo |-> "UTC"], kw_base + 5)]

LoadProfiles ==
    {[json |-> "list", items |-> q] : q \in SeqsUpTo(EntryPool, MaxEntries)}
    \cup {[json |-> "list", items |-> build_load_profile(days_from_civil(2024, 6, 5))],
          [json |-> "invalid"]}

Settings ==
    { [json |-> "object", contract_value |-> <<200>>],
      [json |-> "object", contract_value |-> <<100>>],
      [json |-> "object", contract_value |-> <<>>] }

\* the contents of the Redis store: each key is present or not
RedisStates ==
    {("setting_json" :> s) @@ ("load_profile:15m" :> p) : s \in Settings, p \in LoadProfiles}
    \cup {("setting_json" :> s) : s \in Settings}
    \cup {("load_profile:15m" :> p) : p \in {[json |-> "list", items |-> <<>>]}}

DayDRRequest(measure, capacityDR, start, end, timezone) ==
    [measure |-> measure, capacityDR |-> capacityDR,
     timespanDR |-> [start |-> start, end |-> end], timezone |-> timezone]

\* the request of test_day_dr_accepts_and_returns_cbl
TestRequest ==
    DayDRRequest("dayDR", 25, DT(2024, 6, 5, 16, 0, "UTC"), DT(2024, 6, 5, 20, 0, "UTC"),
                 <<"UTC">>)

DayDRRequests ==
    { TestRequest,
      DayDRRequest("dayDR", 25, DT(2024, 6, 5, 16, 0, "UTC"), DT(2024, 6, 5, 20, 0, "UTC"), <<>>),
      DayDRRequest("dayDR", 25, DT(2024, 6, 5, 16, 0, "UTC"), DT(2024, 6, 5, 20, 0, "UTC"),
                   <<"Asia/Taipei">>),
      DayDRRequest("dayDR", 25, DT(2024, 6, 5, 8, 0, "UTC"), DT(2024, 6, 5, 12, 0, "UTC"),
                   <<"Asia/Taipei">>),
      DayDRRequest("dayDR", 25, DT(2024, 6, 5, 18, 0, "UTC"), DT(2024, 6, 5, 20, 0, "UTC"),
                   <<"UTC">>),
      DayDRRequest("dayDR", 25, DT(2024, 6, 5, 16, 0, "UTC"), DT(2024, 6, 5, 22, 0, "UTC"),
                   <<"UTC">>),
      DayDRRequest("dayDR", 25, DT(2024, 6, 5, 17, 0, "UTC"), DT(2024, 6, 5, 20, 0, "UTC"),
                   <<"UTC">>),
      DayDRRequest("dayDR", 25, DT(2024, 6, 8, 16, 0, "UTC"), DT(2024, 6, 8, 20, 0, "UTC"),
                   <<"UTC">>),
      DayDRRequest("dayDR", 25, DT(2024, 11, 6, 16, 0, "UTC"), DT(2024, 11, 6, 20, 0, "UTC"),
                   <<"UTC">>),
      DayDRRequest("dayDR", 20, DT(2024, 6, 5, 16, 0, "UTC"), DT(2024, 6, 5, 20, 0, "UTC"),
                   <<"UTC">>),
      DayDRRequest("dayDR", 0, DT(2024, 6, 5, 16, 0, "UTC"), DT(2024, 6, 5, 20, 0, "UTC"),
                   <<"UTC">>),
      DayDRRequest("dayDR", 25, DT(2024, 6, 5, 20, 0, "UTC"), DT(2024, 6, 5, 16, 0, "UTC"),
                   <<"UTC">>),
      DayDRRequest("guaranteeDR", 25, DT(2024, 6, 5, 16, 0, "UTC"),
                   DT(2024, 6, 5, 20, 0, "UTC"), <<"UTC">>),
      DayDRRequest("guaranteeDR", 25, DT(2024, 6, 5, 16, 0, "UTC"),
                   DT(2024, 6, 5, 20, 0, "UTC"), <<"Mars/Phobos">>),
      DayDRRequest("dayDR", 25, DT(2024, 6, 5, 16, 0, "UTC"), DT(2024, 6, 7, 20, 0, "UTC"),
                   <<"UTC">>),
      DayDRRequest("dayDR", 25, DT(2024, 6, 5, 16, 0, "UTC"), DT(2024, 6, 5, 20, 0, "UTC"),
                   <<"Mars/Phobos">>) }

InitDayDR ==
    /\ METER_STORE = <<>>
    /\ OFF_PEAK_SPECIAL_DAYS = {}
    /\ request = NoRequest
    /\ response = NoResponse
    /\ reward_thread = Idle
    /\ snapshots = {}
    /\ redis_data \in RedisStates
    /\ dr_request = NoRequest
    /\ dr_response = NoResponse

HandleDayDR == \E req \in DayDRRequests : handle_day_dr(req)

NextDayDR == HandleDayDR \/ ReplyDayDR

SpecDayDR == InitDayDR /\ [][NextDayDR]_vars

-----------------------------------------------------------------------------
(* Vocabulary of the properties: stated from the calendar and from the     *)
(* contents of METER_STORE, not through the helpers of the computation     *)

LocalWall(ts) ==
    IF ts.tzinfo = "naive" THEN ts.wall
    ELSE IF ts.tzinfo = "UTC" THEN ts.wall + 480
    ELSE ts.wall
LocalDate(ts) == LocalWall(ts) \div 1440
LocalTime(ts) == LocalWall(ts) % 1440

SamplesOf(cid) == IF cid \in DOMAIN METER_STORE THEN METER_STORE[cid] ELSE <<>>

IsSaturday(d) == (d - days_from_civil(2024, 10, 26)) % 7 = 0
IsSunday(d) == (d - days_from_civil(2024, 10, 27)) % 7 = 0
MayToOctober(d) == civil_from_days(d).month \in 5..10

InWindowIdx(cid, d, start_t, end_t) ==
    {i \in 1..Len(SamplesOf(cid)) :
        LET ts == SamplesOf(cid)[i].timestamp
        IN  LocalDate(ts) = d /\ start_t <= LocalTime(ts) /\ LocalTime(ts) < end_t}

SampleDates(cid) == {LocalDate(SamplesOf(cid)[i].timestamp) : i \in 1..Len(SamplesOf(cid))}

\* the qualifying days among the 90 calendar days before event_date
QualifyingDays(cid, event_date, start_t, end_t) ==
    {d \in SampleDates(cid) :
        /\ event_date - 90 <= d /\ d <= event_date - 1
        /\ ~IsSaturday(d) /\ ~IsSunday(d)
        /\ d \notin OFF_PEAK_SPECIAL_DAYS
        /\ MayToOctober(d)
        /\ InWindowIdx(cid, d, start_t, end_t) # {}}

RECURSIVE SumKwIdx(_, _)
SumKwIdx(samples, I) ==
    IF I = {} THEN 0
    ELSE LET i == CHOOSE i \in I : TRUE
         IN  samples[i].kw + SumKwIdx(samples, I \ {i})

MeanKwIdx(cid, I) == Rat(SumKwIdx(SamplesOf(cid), I), Cardinality(I))

RECURSIVE SumOverDays(_, _)
SumOverDays(f, D) ==
    IF D = {} THEN RInt(0)
    ELSE LET d == CHOOSE d \in D : TRUE
         IN  RAdd(f[d], SumOverDays(f, D \ {d}))

SeqToSet(q) == {q[i] : i \in 1..Len(q)}

\* the request in the state is a call of compute_day_select_cbl / _reward
IsCBLCall == request.op = "compute_day_select_cbl"
IsRewardCall == request.op = "compute_day_select_reward"
IsBaselineCall == IsCBLCall \/ IsRewardCall
HasBaseline == response.kind \in {"DaySelectCBLResponse", "DaySelectRewardResponse"}

ReqCustomer == request.customer_id
ReqStartWall == LocalWall(request.event_start)
ReqEndWall == LocalWall(request.event_end)
ReqEventDate == ReqStartWall \div 1440
ReqStartTime == ReqStartWall % 1440
ReqEndTime == ReqEndWall % 1440
ReqQualifying == QualifyingDays(ReqCustomer, ReqEventDate, ReqStartTime, ReqEndTime)

AllNaiveOrAllAware(cid) ==
    \/ \A i \in 1..Len(SamplesOf(cid)) : SamplesOf(cid)[i].timestamp.tzinfo = "naive"
    \/ \A i \in 1..Len(SamplesOf(cid)) : SamplesOf(cid)[i].timestamp.tzinfo # "naive"

OutOfSeasonError == [kind |-> "HTTPException", status_code |-> 400,
                     detail |-> [error |-> "OutOfSeason"]]

InsufficientBaselineError(min_days, found) ==
    [kind |-> "HTTPException", status_code |-> 400,
     detail |-> [error |-> "InsufficientBaseline",
                 min_baseline_days |-> min_days, found |-> found]]

-----------------------------------------------------------------------------
(* Properties of compute_day_select_cbl *)

C2_QualifyingDaysOnly ==
    (IsCBLCall /\ response.kind = "DaySelectCBLResponse") =>
        \A d \in SeqToSet(response.baseline_source_days) :
            /\ ~IsSaturday(d)
            /\ ~IsSunday(d)
            /\ d \notin OFF_PEAK_SPECIAL_DAYS
            /\ MayToOctober(d)
            /\ InWindowIdx(ReqCustomer, d, ReqStartTime, ReqEndTime) # {}

\* a result for a customer who has an in-window sample on a Saturday of the
\* 90 days before the event
C2_Witness ==
    /\ IsCBLCall /\ response.kind = "DaySelectCBLResponse"
    /\ \E d \in SampleDates(ReqCustomer) :
          /\ IsSaturday(d)
          /\ ReqEventDate - 90 <= d /\ d <= ReqEventDate - 1
          /\ InWindowIdx(ReqCustomer, d, ReqStartTime, ReqEndTime) # {}

\* the conditions under which the search for baseline days is reached
C3_SearchReached ==
    /\ ReqEndWall > ReqStartWall
    /\ MayToOctober(ReqEventDate)
    /\ SamplesOf(ReqCustomer) # <<>>
    /\ AllNaiveOrAllAware(ReqCustomer)

\* C3 as stated: for min_baseline_days >= 1 a result is returned iff at least
\* min_baseline_days qualifying days exist among the 90 days before the event
\* date, then with exactly min_baseline_days dates; otherwise the call fails
\* with the insufficient-baseline error that names the number found.
C3_AsStated ==
    (IsCBLCall /\ request.min_baseline_days >= 1) =>
        LET n == Cardinality(ReqQualifying)
            m == request.min_baseline_days
        IN  /\ (response.kind = "DaySelectCBLResponse") <=> (n >= m)
            /\ (response.kind = "DaySelectCBLResponse") =>
                    Len(response.baseline_source_days) = m
            /\ (n < m) => response = InsufficientBaselineError(m, n)

\* C3 (amended): for min_baseline_days >= 1 a result is returned iff the
\* search is reached (end after start, event date in season, the customer has
\* samples and their timestamps can be ordered) and at least min_baseline_days
\* qualifying days exist among the 90 days before the event date, then with
\* exactly min_baseline_days dates; when the search is reached and fewer
\* exist, and only then, the call fails with the insufficient-baseline error
\* naming the number of qualifying days of that window.
C3_BaselineDayCount ==
    (IsCBLCall /\ request.min_baseline_days >= 1) =>
        LET n == Cardinality(ReqQualifying)
            m == request.min_baseline_days
        IN  /\ (response.kind = "DaySelectCBLResponse") <=> (C3_SearchReached /\ n >= m)
            /\ (response.kind = "DaySelectCBLResponse") =>
                    Len(response.baseline_source_days) = m
            /\ (C3_SearchReached /\ n < m) <=> (response = InsufficientBaselineError(m, n))
            /\ (response.kind = "HTTPException" /\ response.detail.error = "InsufficientBaseline")
                    => response = InsufficientBaselineError(m, n)

\* two days are required and one qualifying day is found
C3_Witness ==
    /\ IsCBLCall
    /\ request.min_baseline_days = 2
    /\ Cardinality(ReqQualifying) = 1
    /\ response = InsufficientBaselineError(2, 1)

\* C7: an event with end > start whose local date lies outside May 1 -
\* October 31 fails with the out-of-season error, whatever samples exist.
C7_OutOfSeasonFirst ==
    (IsCBLCall /\ ReqEndWall > ReqStartWall /\ ~MayToOctober(ReqEventDate)) =>
        response = OutOfSeasonError

\* out of season although enough qualifying days precede the event
C7_Witness ==
    /\ IsCBLCall /\ ReqEndWall > ReqStartWall /\ ~MayToOctober(ReqEventDate)
    /\ request.min_baseline_days >= 1
    /\ Cardinality(ReqQualifying) >= request.min_baseline_days
    /\ response = OutOfSeasonError

\* the samples of the 22:00-24:00 window of day d
AdjustIdx(cid, d) ==
    {i \in 1..Len(SamplesOf(cid)) :
        LET ts == SamplesOf(cid)[i].timestamp
        IN  LocalDate(ts) = d /\ LocalTime(ts) >= 22 * 60}

TodayAdjustAvg ==
    IF AdjustIdx(ReqCustomer, ReqEventDate) = {} THEN RInt(0)
    ELSE MeanKwIdx(ReqCustomer, AdjustIdx(ReqCustomer, ReqEventDate))

HistAdjustAvg ==
    LET days == {d \in SeqToSet(response.baseline_source_days) :
                    AdjustIdx(ReqCustomer, d) # {}}
        mean == [d \in days |-> MeanKwIdx(ReqCustomer, AdjustIdx(ReqCustomer, d))]
    IN  IF days = {} THEN RInt(0)
        ELSE RDiv(SumOverDays(mean, days), RInt(Cardinality(days)))

\* C9: af_kw = max(today_adjust_avg_kw - hist_adjust_avg_kw, 0), both averages
\* over the 22:00-24:00 window and 0 without samples; so af_kw >= 0, and with
\* no sample in 22:00-24:00 on the event date af_kw = 0 and, without a
\* contract cap, cbl_kw = cbl1_kw.
C9_AdjustmentFactor ==
    (IsCBLCall /\ response.kind = "DaySelectCBLResponse") =>
        LET d == response.detail
        IN  /\ d.today_adjust_avg_kw = TodayAdjustAvg
            /\ d.hist_adjust_avg_kw = HistAdjustAvg
            /\ d.af_kw = RMax(RSub(TodayAdjustAvg, HistAdjustAvg), RInt(0))
            /\ RLe(RInt(0), d.af_kw)
            /\ (AdjustIdx(ReqCustomer, ReqEventDate) = {}) =>
                    /\ d.af_kw = RInt(0)
                    /\ (request.contract_capacity_kw = <<>>) => response.cbl_kw = d.cbl1_kw

\* downward drift: the history's 22:00-24:00 average exceeds the event day's
C9_Witness ==
    /\ IsCBLCall /\ response.kind = "DaySelectCBLResponse"
    /\ RLt(TodayAdjustAvg, HistAdjustAvg)
    /\ response.detail.af_kw = RInt(0)
    /\ response.cbl_kw = response.detail.cbl1_kw

-----------------------------------------------------------------------------
(* Properties of compute_day_select_reward *)

ReqDurationMinutes == ReqEndWall - ReqStartWall

IsRewardResult == IsRewardCall /\ response.kind = "DaySelectRewardResponse"

InvalidCommitmentError == [kind |-> "HTTPException", status_code |-> 400,
                           detail |-> [error |-> "CommittedCapacityNotPositive"]]

IsUnsupportedDurationError ==
    /\ response.kind = "HTTPException"
    /\ response.detail.error = "UnsupportedDuration"

\* the scenario of C4: 100 kW committed, 85 kW reduced, a 4-hour event
C4_Scenario ==
    /\ IsRewardResult
    /\ request.committed_capacity_kw = 100
    /\ RSub(response.cbl_kw, response.actual_avg_kw) = RInt(85)
    /\ ReqDurationMinutes = 240

C5_ReductionTiers ==
    IsRewardResult =>
        LET e == response.execution_rate
            r == response.reduction_ratio
        IN  /\ RLe(RInt(0), e) /\ RLe(e, Rat(12, 10))
            /\ RLt(e, Rat(6, 10)) => r = RInt(0)
            /\ (RLe(Rat(6, 10), e) /\ RLt(e, Rat(8, 10))) => r = Rat(8, 10)
            /\ (RLe(Rat(8, 10), e) /\ RLt(e, Rat(95, 100))) => r = RInt(1)
            /\ RLe(Rat(95, 100), e) => r = Rat(12, 10)
            /\ r \in {RInt(0), Rat(8, 10), RInt(1), Rat(12, 10)}
            /\ RLt(e, Rat(6, 10)) => response.reward_ntd = RInt(0)

\* an execution rate on the lower edge of the 0.8 tier
C5_Witness ==
    /\ IsRewardResult
    /\ response.execution_rate = Rat(6, 10)
    /\ response.reduction_ratio = Rat(8, 10)
    /\ RLt(RInt(0), response.reward_ntd)

\* the distance of the event duration from the given hours is below 0.1 h
WithinTenthOfHours(hours) ==
    LET diff == ReqDurationMinutes - 60 * hours
    IN  -6 < diff /\ diff < 6

\* C6 as stated: when the baseline succeeds and the commitment is positive,
\* a duration within 0.1 h of 2 gives the tariff 2.47, of 4 gives 1.84, of 6
\* gives 1.69, and any other duration fails with the unsupported-duration
\* error.
C6_TariffByDuration ==
    (IsRewardCall /\ (IsRewardResult \/ IsUnsupportedDurationError)) =>
        /\ WithinTenthOfHours(2) =>
                (IsRewardResult /\ response.tariff_rate = Rat(247, 100))
        /\ WithinTenthOfHours(4) =>
                (IsRewardResult /\ response.tariff_rate = Rat(184, 100))
        /\ WithinTenthOfHours(6) =>
                (IsRewardResult /\ response.tariff_rate = Rat(169, 100))
        /\ (~WithinTenthOfHours(2) /\ ~WithinTenthOfHours(4) /\ ~WithinTenthOfHours(6))
                => IsUnsupportedDurationError

\* the baseline of the reward call in the state, computed on its own
ReqBaseline ==
    compute_day_select_cbl(METER_STORE, OFF_PEAK_SPECIAL_DAYS, request.customer_id,
                           request.event_start, request.event_end,
                           request.contract_capacity_kw, request.min_baseline_days)

\* C8: when compute_day_select_cbl fails on the inputs of a reward call, the
\* reward call fails with that same failure, whatever the commitment and the
\* duration; the invalid-commitment error is reported exactly when the
\* baseline succeeds and committed_capacity_kw <= 0; the unsupported-duration
\* error only when the baseline succeeds and the commitment is positive; and
\* a reward result only when the baseline succeeds and the commitment is
\* positive.
C8_FailurePrecedence ==
    IsRewardCall =>
        LET cbl    == ReqBaseline
            cbl_ok == cbl.kind = "DaySelectCBLResponse"
        IN  /\ ~cbl_ok => response = cbl
            /\ (response = InvalidCommitmentError)
                   <=> (cbl_ok /\ request.committed_capacity_kw <= 0)
            /\ IsUnsupportedDurationError
                   => (cbl_ok /\ request.committed_capacity_kw > 0)
            /\ IsRewardResult
                   => (cbl_ok /\ request.committed_capacity_kw > 0)

\* the baseline fails (too few qualifying days) on a call whose commitment is
\* 0 and whose duration would be unsupported as well
C8_Witness ==
    /\ IsRewardCall
    /\ request.committed_capacity_kw <= 0
    /\ ~WithinTenthOfHours(2) /\ ~WithinTenthOfHours(4) /\ ~WithinTenthOfHours(6)
    /\ ReqEndWall > ReqStartWall
    /\ SamplesOf(ReqCustomer) # <<>>
    /\ response.kind = "HTTPException"
    /\ response.detail.error = "InsufficientBaseline"

-----------------------------------------------------------------------------
(* Properties of POST /dayDR *)

IsDayDRCall == dr_request.op = "handle_day_dr"
IsAccepted == IsDayDRCall /\ dr_response.kind = "DayDRResponse" /\ dr_response.accepted

\* the zone of the call's local rules and the call's local start and end
CallZoneOffset ==
    IF dr_request.timezone = <<"Asia/Taipei">> THEN 480 ELSE 0
ZoneWall(ts) ==
    ts.wall - (IF ts.tzinfo = "Asia/Taipei" THEN 480 ELSE 0) + CallZoneOffset
CallDate == ZoneWall(dr_request.timespanDR.start) \div 1440
CallWindowStart == ZoneWall(dr_request.timespanDR.start) % 1440
CallWindowEnd == ZoneWall(dr_request.timespanDR.end) % 1440

ProfileEntries == redis_data["load_profile:15m"].items

\* the entries of the 20 days before the call date inside the window, both
\* ends of the window included
ContributingIdx ==
    {i \in 1..Len(ProfileEntries) :
        LET w == ZoneWall(ProfileEntries[i].timestamp[1])
        IN  /\ CallDate - 20 <= w \div 1440 /\ w \div 1440 <= CallDate - 1
            /\ CallWindowStart <= w % 1440 /\ w % 1440 <= CallWindowEnd}

ContributingDays ==
    {ZoneWall(ProfileEntries[i].timestamp[1]) \div 1440 : i \in ContributingIdx}

DayMinimum(d) ==
    LET kws == {ProfileEntries[i].kw[1] :
                    i \in {j \in ContributingIdx :
                              ZoneWall(ProfileEntries[j].timestamp[1]) \div 1440 = d}}
    IN  CHOOSE k \in kws : \A other \in kws : k <= other

RECURSIVE SumOfMinima(_)
SumOfMinima(D) ==
    IF D = {} THEN 0
    ELSE LET d == CHOOSE d \in D : TRUE
         IN  DayMinimum(d) + SumOfMinima(D \ {d})

\* C10: for an accepted POST /dayDR request the cbl is the mean, over the
\* days among the 20 days before the call date that have an entry inside the
\* call's time-of-day window (ends included), of the day's minimum kw inside
\* the window; entries on the call date or more than 20 days earlier do not
\* contribute. For the test's profile (10 + d and 15 + d kW on each of the 20
\* prior days) and request the call is accepted with cbl 20.5.
C10_MeanOfDailyMinima ==
    /\ IsAccepted =>
          /\ ContributingDays # {}
          /\ dr_response.cbl =
                 <<Rat(SumOfMinima(ContributingDays), Cardinality(ContributingDays))>>
    /\ ( /\ IsDayDRCall
         /\ [k \in DOMAIN dr_request \ {"op"} |-> dr_request[k]] = TestRequest
         /\ "load_profile:15m" \in DOMAIN redis_data
         /\ redis_data["load_profile:15m"].json = "list"
         /\ ProfileEntries = build_load_profile(days_from_civil(2024, 6, 5))
         /\ "setting_json" \in DOMAIN redis_data
         /\ redis_data["setting_json"].contract_value = <<200>> )
          => (IsAccepted /\ dr_response.cbl = <<Rat(41, 2)>>)

\* the test's call: 40 entries on 20 days, two per day, accepted with 20.5
C10_Witness ==
    /\ IsAccepted
    /\ Len(ProfileEntries) = 40
    /\ Cardinality(ContributingDays) = 20
    /\ Cardinality(ContributingIdx) = 40
    /\ dr_response.cbl = <<Rat(41, 2)>>

\* the request passed the validators of the request model
PassedValidation ==
    /\ dr_request.capacityDR > 0
    /\ ZoneWall(dr_request.timespanDR.end) > ZoneWall(dr_request.timespanDR.start)

ZoneIsKnown == dr_request.timezone \in {<<>>, <<"UTC">>, <<"Asia/Taipei">>}

ContractBelowThreshold ==
    \/ "setting_json" \notin DOMAIN redis_data
    \/ redis_data["setting_json"].json # "object"
    \/ redis_data["setting_json"].contract_value = <<>>
    \/ redis_data["setting_json"].contract_value[1] <= 100

\* 2024-06-03 was a Monday
CallOnWeekday == (CallDate - days_from_civil(2024, 6, 3)) % 7 \in 0..4

CallWindowAllowed ==
    /\ CallOnWeekday
    /\ <<CallWindowStart, CallWindowEnd>> \in
           {<<18 * 60, 20 * 60>>, <<16 * 60, 20 * 60>>, <<16 * 60, 22 * 60>>}

CallInSeason == civil_from_days(CallDate).month \in 5..10

Rejection(reason) ==
    [kind |-> "DayDRResponse", accepted |-> FALSE, reason |-> <<reason>>, cbl |-> <<>>]

IsRejection == dr_response.kind = "DayDRResponse" /\ ~dr_response.accepted

\* the checks after the contract value, in their order
LaterChecksInOrder ==
    IF ~CallWindowAllowed
    THEN dr_response = Rejection("Timespan not in allowed DR windows")
    ELSE IF ~CallInSeason
    THEN dr_response = Rejection("Request outside active DR season")
    ELSE IF dr_request.capacityDR <= 20
    THEN dr_response = Rejection("capacityDR must exceed 20 kW")
    ELSE ~IsRejection

\* C11: the checks are applied in the order measure, contract value, allowed
\* window and weekday, active season, capacity; a request that fails one is
\* answered with accepted = false, cbl = null and the reason of the first
\* failing check, whether or not the load profile is in the store; a request
\* that passes all of them is not rejected.
C11_CheckOrder ==
    (IsDayDRCall /\ PassedValidation) =>
        IF dr_request.measure # "dayDR"
        THEN dr_response = Rejection("Unsupported measure")
        ELSE IF ContractBelowThreshold
        THEN dr_response = Rejection("Contract value below threshold")
        ELSE IF ~ZoneIsKnown
        THEN TRUE
        ELSE LaterChecksInOrder

\* the same for the requests whose timezone key ZoneInfo finds
CheckOrderKnownZone ==
    (IsDayDRCall /\ PassedValidation /\ ZoneIsKnown) =>
        IF dr_request.measure # "dayDR"
        THEN dr_response = Rejection("Unsupported measure")
        ELSE IF ContractBelowThreshold
        THEN dr_response = Rejection("Contract value below threshold")
        ELSE LaterChecksInOrder

\* a request rejected for its contract value although the load profile is
\* missing from the store
C11_Witness ==
    /\ IsDayDRCall /\ PassedValidation /\ ZoneIsKnown
    /\ dr_request.measure = "dayDR"
    /\ "load_profile:15m" \notin DOMAIN redis_data
    /\ dr_response = Rejection("Contract value below threshold")

\* the samples the cross-midnight window selects for day d: on d from the
\* start time on, or on d + 1 before the end time
CrossWindowIdx(cid, d, start_t, end_t) ==
    {i \in 1..Len(SamplesOf(cid)) :
        LET ts == SamplesOf(cid)[i].timestamp
        IN  \/ LocalDate(ts) = d /\ LocalTime(ts) >= start_t
            \/ LocalDate(ts) = d + 1 /\ LocalTime(ts) < end_t}

\* the days of the 90 before the event date that qualify for an event whose
\* window crosses midnight
CrossQualifyingDays(cid, event_date, start_t, end_t) ==
    {d \in (event_date - 90)..(event_date - 1) :
        /\ ~IsSaturday(d) /\ ~IsSunday(d)
        /\ d \notin OFF_PEAK_SPECIAL_DAYS
        /\ MayToOctober(d)
        /\ CrossWindowIdx(cid, d, start_t, end_t) # {}}

CrossesMidnight == ReqEndWall \div 1440 # ReqEventDate

CrossActualAvg ==
    LET I == CrossWindowIdx(ReqCustomer, ReqEventDate, ReqStartTime, ReqEndTime)
    IN  IF I = {} THEN RInt(0) ELSE MeanKwIdx(ReqCustomer, I)

\* a reward call for a window that crosses midnight, with a supported
\* duration, a positive commitment and enough history in that window
C12_Case ==
    /\ IsRewardCall
    /\ ReqEndWall > ReqStartWall
    /\ CrossesMidnight
    /\ MayToOctober(ReqEventDate)
    /\ AllNaiveOrAllAware(ReqCustomer)
    /\ request.committed_capacity_kw > 0
    /\ request.min_baseline_days >= 1
    /\ (WithinTenthOfHours(2) \/ WithinTenthOfHours(4) \/ WithinTenthOfHours(6))
    /\ Cardinality(CrossQualifyingDays(ReqCustomer, ReqEventDate, ReqStartTime, ReqEndTime))
           >= request.min_baseline_days

\* C12: for an event whose local end date differs from its local start date
\* (22:00-00:00), given sufficient history, compute_day_select_reward returns
\* a result whose actual_avg_kw is the average of the samples of the event
\* date selected by the cross-midnight filter.
C12_CrossMidnightReward ==
    C12_Case => (IsRewardResult /\ response.actual_avg_kw = CrossActualAvg)

\* the case of C12 is reached, and the call fails for want of baseline days
C12_Witness ==
    /\ C12_Case
    /\ response.kind = "HTTPException"
    /\ response.detail.error = "InsufficientBaseline"
    /\ response.detail.found = 0

\* C13: on success baseline_source_days is the set of the min_baseline_days
\* most recent qualifying days before the event: each date d has
\* event_date - 90 <= d <= event_date - 1 and qualifies, no qualifying date
\* later than a selected one is left out, the dates are distinct, and they
\* are in ascending order.
C13_MostRecentQualifying ==
    (IsCBLCall /\ response.kind = "DaySelectCBLResponse") =>
        LET days == response.baseline_source_days
            S    == SeqToSet(days)
        IN  /\ Len(days) = request.min_baseline_days
            /\ Cardinality(S) = Len(days)
            /\ \A d \in S : ReqEventDate - 90 <= d /\ d <= ReqEventDate - 1
            /\ S \subseteq ReqQualifying
            /\ \A q \in ReqQualifying : (\E d \in S : d < q) => q \in S
            /\ \A i, j \in 1..Len(days) : i < j => days[i] < days[j]

\* one day is asked for, two qualify, and the later one is returned
C13_Witness ==
    /\ IsCBLCall /\ response.kind = "DaySelectCBLResponse"
    /\ request.min_baseline_days = 1
    /\ Cardinality(ReqQualifying) = 2
    /\ \A q \in ReqQualifying : q <= response.baseline_source_days[1]

\* C14: every outcome of a compute_day_select_reward call equals the outcome
\* of the whole computation on one of the values METER_STORE had during the
\* call, also when records are appended while it runs.
C14_SingleSnapshot ==
    (IsRewardCall /\ response # NoResponse /\ snapshots # {}) =>
        \E store \in snapshots :
            response = compute_day_select_reward(
                           store, OFF_PEAK_SPECIAL_DAYS, request.customer_id,
                           request.event_start, request.event_end,
                           request.contract_capacity_kw, request.committed_capacity_kw,
                           request.min_baseline_days)

\* a reward result of a call during which a record was appended
C14_Witness ==
    /\ IsRewardResult
    /\ Cardinality(snapshots) >= 2

CallDurationMinutes ==
    ZoneWall(dr_request.timespanDR.end) - ZoneWall(dr_request.timespanDR.start)

CallEndDate == ZoneWall(dr_request.timespanDR.end) \div 1440

\* C15: every accepted request has a timespan of exactly 2, 4 or 6 hours
\* whose start and end lie on the same local date, a Monday to Friday, with
\* (start time, end time) one of 18:00-20:00, 16:00-20:00, 16:00-22:00.
C15_AcceptedTimespan ==
    IsAccepted =>
        /\ CallDurationMinutes \in {2 * 60, 4 * 60, 6 * 60}
        /\ CallEndDate = CallDate
        /\ CallWindowAllowed

\* an accepted request whose end lies two days after its start
C15_Witness ==
    /\ IsAccepted
    /\ CallWindowAllowed
    /\ CallEndDate = CallDate + 2
    /\ CallDurationMinutes = 52 * 60

=============================================================================
